---- MODULE Spec2Model ----
(***************************************************************************)
(* State-machine model of the requestrepo client library                   *)
(* (src/src/requestrepo/__init__.py, class Requestrepo).                   *)
(*                                                                         *)
(* One Python process, one thread: at most one API call is in flight at a  *)
(* time (every blocking call runs loop.run_until_complete).  A call that   *)
(* blocks on websocket.recv() is cut at its suspension points: the code    *)
(* between two recv() calls is one action.  The remote service is the      *)
(* environment: it answers the handshake, pushes live events, closes       *)
(* connections and stores the DNS records it is sent.                      *)
(***************************************************************************)
EXTENDS Integers, Sequences, FiniteSets, TLC

\* ------------------------------------------------------------------ bounds
MaxEvents == 3          \* live events the remote pushes to one session
MaxSharedEvents == 2    \* live events the remote pushes when two sessions run
MaxRecords == 2         \* DNS records the remote keeps

\* ------------------------------------------------------------------ inputs
Sessions == {"S1", "S2"}                 \* Requestrepo instances of the process
WireTypes == {"http", "dns", "smtp"}     \* values of the wire field "type"
NoFilter == "None"
Filters == {NoFilter, "HTTP_FILTER", "DNS_FILTER", "USER_FILTER"}
\* The first server message: {"data": [raw events]}; ids of old events are < 0.
Snapshots == {<< >>, << [id |-> -1, type |-> "dns"], [id |-> -2, type |-> "http"] >>}

VARIABLES
  queue,        \* Requestrepo.__queue: the list object bound at class level
  oldRequests,  \* [Sessions -> list]: self.__old_requests
  open,         \* the sessions whose __init__ has returned
  call,         \* the API call in flight (the thread's position)
  handshake,    \* [Sessions -> Seq]: the frames of the handshake, in wire order
  chan,         \* [Sessions -> Seq]: server-to-client frames not yet read
  closed,       \* [Sessions -> BOOLEAN]: the peer closed the websocket
  arrivals,     \* history: live events pushed by the remote, index = event id
  returned,     \* history: events returned by get_request, in order
  handled,      \* history: events passed to on_request, in order
  dropped,      \* history: ids read from a channel by a call that then raised
  last,         \* outcome of the most recent streaming call
  dnsRecords,   \* remote: the stored DNS record list
  net,          \* the most recent management call: its HTTP requests and result
  cred,         \* per session: how __init__ resolved the token
  fileCfg,      \* remote: the stored response configuration (the JSON of get_file)
  http          \* the most recent response()/update_http call

histVars == <<arrivals, returned, handled, dropped, last>>
fileVars == <<fileCfg, http>>
remoteVars == <<dnsRecords, net, fileVars>>
vars == <<queue, oldRequests, open, call, handshake, chan, closed,
          arrivals, returned, handled, dropped, last, dnsRecords, net, cred, fileCfg, http>>

\* ----------------------------------------------------------------- helpers
NoEvent == [id |-> 0, cls |-> "", type |-> ""]
\* call: the call in flight.  q0, skipped, n0, c0 are bookkeeping for the properties:
\* the queue when the call began, the events the call appended to the queue, the
\* length of `handled` and the set of ids already read when the call began.
Idle == [op |-> "idle", s |-> "", f |-> NoFilter, q0 |-> << >>, skipped |-> << >>,
         n0 |-> 0, c0 |-> {}]
\* last: kind is "none" (call in flight), "ok", "event" (ev returned) or "error"
\* (exception exc raised, value is the value its message names); k is the number
\* of events the call appended to the queue.
NoResult == [op |-> "", s |-> "", f |-> NoFilter, kind |-> "none", ev |-> NoEvent,
             exc |-> "", value |-> "", k |-> 0]

Returns(c, e) == [op |-> c.op, s |-> c.s, f |-> c.f, kind |-> "event", ev |-> e,
                  exc |-> "", value |-> "", k |-> Len(c.skipped)]
Raises(c, x, v) == [op |-> c.op, s |-> c.s, f |-> c.f, kind |-> "error", ev |-> NoEvent,
                    exc |-> x, value |-> v, k |-> Len(c.skipped)]

\* ids of the live events of session s's channel, and those already read from it
ChannelIds(s) == {i \in 1..Len(arrivals) : arrivals[i].s = s}
Pending(s) == {chan[s][k].data.id : k \in {j \in 1..Len(chan[s]) : ~chan[s][j].snapshot}}
Consumed(s) == ChannelIds(s) \ Pending(s)

\* __init__, line 80: json.loads(first message)["data"]
SnapshotOf(msg) == msg.data

\* __init__, line 80: the one recv() of the constructor takes one frame off the
\* channel.  (Mutation: the constructor reads a second frame if one is there.)
AfterHandshake_Two(c) == IF Len(c) >= 2 THEN Tail(Tail(c)) ELSE Tail(c)
AfterHandshake(c) == Tail(c)

\* get_old_requests, line 98.  (Mutation: the list also carries the queued live events.)
get_old_requests_WithLive(s) == oldRequests[s] \o queue
get_old_requests(s) == oldRequests[s]

\* self.__queue (line 20) read through any instance: the attribute is bound on
\* the class and no method rebinds it on the instance
BufferOf(s) == queue

\* get_request, line 136: list.pop(i), the list without its i-th element (1-based).
\* (Mutations: the element is read, not removed; the head is removed instead.)
Pop_Keeps(q, i) == q
Pop_Head(q, i) == Tail(q)
Pop(q, i) == SubSeq(q, 1, i - 1) \o SubSeq(q, i + 1, Len(q))

\* get_request, line 141: self.__queue.append(request).
\* (Mutation: the request is inserted at the head.)
Buffer_AtHead(q, e) == << e >> \o q
Buffer(q, e) == Append(q, e)

\* __process_requests, lines 171-172: the callback is called with the request.
\* (Mutation: the callback is called twice.)
Deliver_Twice(h, e, s) == Append(Append(h, [e |-> e, s |-> s]), [e |-> e, s |-> s])
Deliver(h, e, s) == Append(h, [e |-> e, s |-> s])

\* HTTP_FILTER / DNS_FILTER: isinstance tests.  USER_FILTER stands for a caller's
\* predicate that reads an HttpRequest-only attribute (lambda r: r.method == "GET"):
\* it raises AttributeError on a DnsRequest.
HTTP_FILTER(e) == IF e.cls = "HttpRequest" THEN "T" ELSE "F"
DNS_FILTER(e) == IF e.cls = "DnsRequest" THEN "T" ELSE "F"
USER_FILTER(e) == IF e.cls = "HttpRequest" THEN "T" ELSE "raise"
\* UID_FILTER stands for a caller's predicate that waits for one request
\* (lambda r: r.uid == wanted), here the WantedUid-th event the remote pushes.
WantedUid == 3
UID_FILTER(e) == IF e.id = WantedUid THEN "T" ELSE "F"
ScanFilters == Filters \cup {"UID_FILTER"}
Apply(f, e) ==
  CASE f = "HTTP_FILTER" -> HTTP_FILTER(e)
    [] f = "UID_FILTER" -> UID_FILTER(e)
    [] f = "DNS_FILTER" -> DNS_FILTER(e)
    [] f = "USER_FILTER" -> USER_FILTER(e)
    [] OTHER -> "T"

\* async_get_request, lines 156-161: closed dispatch on data["type"].
\* (Mutation: an unknown type falls back to HttpRequest.)
Decode_Fallback(m) ==
  IF m.type = "dns"
  THEN [ok |-> TRUE, ev |-> [id |-> m.id, cls |-> "DnsRequest", type |-> m.type], value |-> ""]
  ELSE [ok |-> TRUE, ev |-> [id |-> m.id, cls |-> "HttpRequest", type |-> m.type], value |-> ""]
Decode(m) ==
  IF m.type = "http"
  THEN [ok |-> TRUE, ev |-> [id |-> m.id, cls |-> "HttpRequest", type |-> m.type], value |-> ""]
  ELSE IF m.type = "dns"
  THEN [ok |-> TRUE, ev |-> [id |-> m.id, cls |-> "DnsRequest", type |-> m.type], value |-> ""]
  ELSE [ok |-> FALSE, ev |-> NoEvent, value |-> m.type]

\* get_request, lines 134-136: index of the first queued request on which the
\* filter does not return False (it returns True there, or raises); 0 if none.
\* (Mutations: the scan runs tail-to-head; the scan finds nothing.)
FirstHit_Never(f, q) == 0
FirstHit_FromTail(f, q) ==
  IF \E i \in 1..Len(q) : Apply(f, q[i]) # "F"
  THEN CHOOSE i \in 1..Len(q) : Apply(f, q[i]) # "F" /\ \A j \in (i + 1)..Len(q) : Apply(f, q[j]) = "F"
  ELSE 0
FirstHit(f, q) ==
  IF \E i \in 1..Len(q) : Apply(f, q[i]) # "F"
  THEN CHOOSE i \in 1..Len(q) : Apply(f, q[i]) # "F" /\ \A j \in 1..(i - 1) : Apply(f, q[j]) = "F"
  ELSE 0

\* get_request, line 133: `if filter and self.__queue`, the queue is scanned only
\* when a filter is given and the queue is not empty.
\* (Mutation: the queue is scanned whenever it is not empty.)
ScansQueue_Always(f, q) == q # << >>
ScansQueue(f, q) == f # NoFilter /\ q # << >>

\* get_request, line 140: `while filter and not filter(request)`, the request
\* read is returned when no filter is given or the filter returns True on it.
\* (Mutation: every request read is returned.)
Accepts_Any(f, e) == TRUE
Accepts(f, e) == f = NoFilter \/ Apply(f, e) = "T"

\* ------------------------------------------------------------ credentials
\* __init__, line 24 and line 48: the token argument and os.environ.get(
\* "REQUESTREPO_TOKEN"); NoToken is None (no argument, variable unset), "" is the
\* empty string, the others are JWTs.
NoToken == "<None>"
TokenArgs == {NoToken, "", "tokA"}
EnvTokens == {NoToken, "", "tokE"}
\* line 53: the token the remote issues at /api/get_token
IssuedTokens == {"tokI"}

\* `not token`, lines 47, 50, 52
Falsy(token) == token \in {NoToken, ""}

\* __init__, lines 57-60: the "subdomain" field of the JWT payload
SubdomainOf(token) ==
  CASE token = "tokA" -> "subA"
    [] token = "tokE" -> "subE"
    [] token = "tokI" -> "subI"
    [] OTHER -> ""

\* __init__, lines 47-53: the token the session keeps, whether the environment was
\* read, whether the issuance endpoint was called, and `info`.
\* (Mutation: the environment variable is looked up first.)
ResolveToken_EnvFirst(token, env, issued) ==
  LET t1 == IF Falsy(env) THEN token ELSE env
  IN [token |-> IF Falsy(t1) THEN issued ELSE t1,
      envRead |-> TRUE,
      issued |-> Falsy(t1),
      info |-> Falsy(t1)]
ResolveToken(token, env, issued) ==
  LET t1 == IF Falsy(token) THEN env ELSE token
  IN [token |-> IF Falsy(t1) THEN issued ELSE t1,
      envRead |-> Falsy(token),
      issued |-> Falsy(t1),
      info |-> Falsy(t1)]

\* cred[s] before __init__ ran for s
NoCred == [arg |-> NoToken, env |-> NoToken, token |-> "", envRead |-> FALSE, issued |-> FALSE,
           info |-> FALSE, subdomain |-> ""]

\* ------------------------------------------------------ response configuration
\* Bytes are sequences of 0..255; base64 text is a sequence of alphabet indices
\* 0..63, B64Pad standing for '='.
B64Pad == 64

\* base64.b64encode, line 230: three bytes become four sextets, a last group of
\* one or two bytes is padded with '='
RECURSIVE b64encode(_)
b64encode(b) ==
  IF b = << >>
  THEN << >>
  ELSE LET n == Len(b)
           v == b[1] * 65536 + (IF n >= 2 THEN b[2] ELSE 0) * 256 + (IF n >= 3 THEN b[3] ELSE 0)
       IN << v \div 262144,
             (v \div 4096) % 64,
             IF n >= 2 THEN (v \div 64) % 64 ELSE B64Pad,
             IF n >= 3 THEN v % 64 ELSE B64Pad >>
          \o b64encode(IF n > 3 THEN SubSeq(b, 4, n) ELSE << >>)

\* base64.b64decode, line 210: four sextets become three bytes, less one byte per '='
RECURSIVE b64decode(_)
b64decode(c) ==
  IF Len(c) < 4
  THEN << >>
  ELSE LET s3 == IF c[3] = B64Pad THEN 0 ELSE c[3]
           s4 == IF c[4] = B64Pad THEN 0 ELSE c[4]
           v == c[1] * 262144 + c[2] * 4096 + s3 * 64 + s4
           bytes == << v \div 65536, (v \div 256) % 256, v % 256 >>
           n == IF c[3] = B64Pad THEN 1 ELSE IF c[4] = B64Pad THEN 2 ELSE 3
       IN SubSeq(bytes, 1, n) \o b64decode(SubSeq(c, 5, Len(c)))

\* A header list is a sequence of {"header": k, "value": v} objects; a header
\* mapping (dict) is a sequence of <<k, v>> pairs with distinct keys, in insertion
\* order.
\* response, line 212: {h["header"]: h["value"] for h in data["headers"]}; a
\* repeated name keeps its first position and takes the last value
RECURSIVE HeadersToDict(_)
HeadersToDict(l) ==
  IF l = << >>
  THEN << >>
  ELSE LET d == HeadersToDict(SubSeq(l, 1, Len(l) - 1))
           h == l[Len(l)]
       IN IF \E k \in 1..Len(d) : d[k][1] = h.header
          THEN [k \in 1..Len(d) |-> IF d[k][1] = h.header THEN << h.header, h.value >> ELSE d[k]]
          ELSE Append(d, << h.header, h.value >>)

\* update_http, line 234: [{"header": k, "value": v} for k, v in headers.items()]
DictToHeaders(d) == [k \in 1..Len(d) |-> [header |-> d[k][1], value |-> d[k][2]]]

\* The arguments of update_http: None, bytes, a header mapping or list, an integer
BytesT(b) == [tag |-> "bytes", v |-> b]
DictT(d) == [tag |-> "dict", v |-> d]
ListT(l) == [tag |-> "list", v |-> l]
StatusT(n) == [tag |-> "int", v |-> n]
NoArg == [tag |-> "none", v |-> << >>]
NoStatus == [tag |-> "none", v |-> 0]
RawArgs == {NoArg, BytesT(<< >>), BytesT(<< 255 >>), BytesT(<< 72, 105, 33, 10 >>)}
HeaderArgs == {NoArg, DictT(<< >>), DictT(<< << "X", "2" >> >>),
               ListT(<< [header |-> "X", value |-> "1"], [header |-> "X", value |-> "2"] >>)}
StatusArgs == {NoStatus, StatusT(0), StatusT(404)}
\* an HttpResponse (models, lines 44-47) passed as `response`
NoFile == [raw |-> << >>, headers |-> << >>, status_code |-> 0]
NoResponse == [tag |-> "none", v |-> NoFile]
ResponseArgs == {NoResponse,
                 [tag |-> "HttpResponse",
                  v |-> [raw |-> << 72 >>, headers |-> << << "Y", "1" >> >>, status_code |-> 201]]}

\* `if headers:`, `if raw:`, `if status_code:` (lines 223-228): None, an empty
\* container and 0 are false
Truthy(a) ==
  CASE a.tag = "none" -> FALSE
    [] a.tag = "int" -> a.v # 0
    [] OTHER -> a.v # << >>

\* The configurations another client of the remote (the web page) may store
StoredFiles ==
  { [raw |-> b64encode(r), headers |-> h, status_code |-> 200] :
      r \in {<< >>, << 72, 105 >>},
      h \in {<< >>, << [header |-> "X", value |-> "1"] >>,
             << [header |-> "X", value |-> "1"], [header |-> "X", value |-> "2"] >>} }
DefaultFile == [raw |-> b64encode(<< 72, 105 >>), headers |-> << [header |-> "X", value |-> "1"] >>,
                status_code |-> 200]

\* http before any response()/update_http call.  sent is the JSON body of the
\* update_file request, stored0 the remote's configuration when the call began,
\* value the HttpResponse that response() returned.
NoHttp == [op |-> "", s |-> "", calls |-> << >>, response |-> NoResponse, raw |-> NoArg, headers |-> NoArg,
           status_code |-> NoStatus, stored0 |-> NoFile, sent |-> NoFile, value |-> NoFile, result |-> ""]

\* response, lines 208-214: the HttpResponse built from the get_file JSON
HttpResponseOf(data) ==
  [raw |-> b64decode(data.raw), headers |-> HeadersToDict(data.headers),
   status_code |-> data.status_code]

\* ------------------------------------------------------------------- init
\* The state after the module is imported: the class attributes are bound, no
\* instance exists, the remote holds no DNS record.
Init ==
  /\ queue = << >>
  /\ oldRequests = [s \in Sessions |-> << >>]
  /\ open = {}
  /\ call = Idle
  /\ handshake = [s \in Sessions |-> << >>]
  /\ chan = [s \in Sessions |-> << >>]
  /\ closed = [s \in Sessions |-> FALSE]
  /\ arrivals = << >>
  /\ returned = << >>
  /\ handled = << >>
  /\ dropped = {}
  /\ last = NoResult
  /\ dnsRecords = << >>
  /\ net = [op |-> "", calls |-> << >>, result |-> "", arg |-> [tag |-> "none", s |-> "", n |-> 0],
            s |-> "", token |-> ""]
  /\ cred = [s \in Sessions |-> NoCred]
  /\ fileCfg = DefaultFile
  /\ http = NoHttp

\* ------------------------------------------------------- session construction
\* __init__, lines 42-78: resolve the token, decode its subdomain, print the
\* diagnostic if `info`, connect and send the token as the first client message;
\* the call then blocks in recv() (line 80).
Construct(s, token, env) ==
  /\ call.op = "idle"
  /\ s \notin open
  /\ handshake[s] = << >>
  /\ \E issued \in IssuedTokens :
       LET r == ResolveToken(token, env, issued)
       IN /\ cred' = [cred EXCEPT ![s] = [arg |-> token, env |-> env, token |-> r.token,
                                          envRead |-> r.envRead, issued |-> r.issued,
                                          info |-> r.info, subdomain |-> SubdomainOf(r.token)]]
          /\ handshake' = [handshake EXCEPT ![s] =
                             << [from |-> "client", data |-> << >>, token |-> r.token] >>]
  /\ call' = [Idle EXCEPT !.op = "init", !.s = s]
  /\ last' = NoResult
  /\ UNCHANGED <<queue, oldRequests, open, chan, closed, arrivals, returned, handled, dropped>>
  /\ UNCHANGED remoteVars

\* The remote answers the token with the snapshot message.
ServerSnapshot(s) ==
  /\ Len(handshake[s]) = 1
  /\ ~closed[s]
  /\ \E snap \in Snapshots :
       /\ chan' = [chan EXCEPT ![s] = << [snapshot |-> TRUE, data |-> snap] >>]
       /\ handshake' = [handshake EXCEPT ![s] = Append(@, [from |-> "server", data |-> snap, token |-> ""])]
  /\ UNCHANGED <<queue, oldRequests, open, call, closed>>
  /\ UNCHANGED cred
  /\ UNCHANGED histVars
  /\ UNCHANGED remoteVars

\* __init__, line 80: the first server message becomes self.__old_requests.
ConstructRecv ==
  /\ call.op = "init"
  /\ LET s == call.s IN
       IF chan[s] # << >>
       THEN /\ oldRequests' = [oldRequests EXCEPT ![s] = SnapshotOf(Head(chan[s]))]
            /\ chan' = [chan EXCEPT ![s] = AfterHandshake(chan[s])]
            /\ open' = open \cup {s}
            /\ last' = [NoResult EXCEPT !.op = "init", !.s = s, !.kind = "ok"]
       ELSE /\ closed[s]
            /\ last' = Raises(call, "ConnectionClosed", "")
            /\ UNCHANGED <<oldRequests, chan, open>>
  /\ call' = Idle
  /\ UNCHANGED <<queue, handshake, closed, arrivals, returned, handled, dropped>>
  /\ UNCHANGED cred
  /\ UNCHANGED remoteVars

\* ----------------------------------------------------------------- remote
\* The remote pushes one live event frame to an authenticated connection.
ServerPush(s) ==
  /\ Len(handshake[s]) = 2
  /\ ~closed[s]
  /\ Len(arrivals) < MaxEvents
  /\ \E t \in WireTypes :
       /\ arrivals' = Append(arrivals, [s |-> s, type |-> t])
       /\ chan' = [chan EXCEPT ![s] = Append(@, [snapshot |-> FALSE,
                                                 data |-> [id |-> Len(arrivals) + 1, type |-> t]])]
  /\ UNCHANGED <<queue, oldRequests, open, call, handshake, closed, returned, handled, dropped, last>>
  /\ UNCHANGED cred
  /\ UNCHANGED remoteVars

\* The remote (or the network) closes the websocket: recv() raises once the
\* frames already received have been read.
ServerClose(s) ==
  /\ handshake[s] # << >>
  /\ ~closed[s]
  /\ closed' = [closed EXCEPT ![s] = TRUE]
  /\ UNCHANGED <<queue, oldRequests, open, call, handshake, chan>>
  /\ UNCHANGED cred
  /\ UNCHANGED histVars
  /\ UNCHANGED remoteVars

\* ------------------------------------------------------------- get_request
\* get_request, lines 133-138: scan the queue with the filter; a hit is popped and
\* returned, otherwise the call goes on to recv().
GetRequest(s, f) ==
  /\ call.op = "idle"
  /\ s \in open
  /\ LET c == [Idle EXCEPT !.op = "get_request", !.s = s, !.f = f, !.q0 = queue,
                           !.n0 = Len(handled), !.c0 = Consumed(s)]
         i == IF ScansQueue(f, queue) THEN FirstHit(f, queue) ELSE 0
     IN IF i > 0 /\ Apply(f, queue[i]) = "T"
        THEN /\ queue' = Pop(queue, i)
             /\ returned' = Append(returned, [e |-> queue[i], f |-> f, s |-> s])
             /\ last' = Returns(c, queue[i])
             /\ call' = Idle
        ELSE IF i > 0
        THEN /\ last' = Raises(c, "AttributeError", "")
             /\ UNCHANGED <<queue, returned, call>>
        ELSE /\ call' = c
             /\ last' = NoResult
             /\ UNCHANGED <<queue, returned>>
  /\ UNCHANGED <<oldRequests, open, handshake, chan, closed, arrivals, handled, dropped>>
  /\ UNCHANGED cred
  /\ UNCHANGED remoteVars

\* get_request, lines 139-144, one recv(): async_get_request reads and decodes the
\* next frame; the request is returned, or appended to the queue and the loop
\* reads again.
GetRequestRecv ==
  /\ call.op = "get_request"
  /\ LET s == call.s
         f == call.f
     IN IF chan[s] # << >>
        THEN LET m == Head(chan[s]).data
                 d == Decode(m)
             IN /\ chan' = [chan EXCEPT ![s] = Tail(chan[s])]
                /\ IF ~d.ok
                   THEN /\ last' = Raises(call, "ValueError", d.value)
                        /\ dropped' = dropped \cup {m.id}
                        /\ call' = Idle
                        /\ UNCHANGED <<queue, returned>>
                   ELSE IF Accepts(f, d.ev)
                   THEN /\ returned' = Append(returned, [e |-> d.ev, f |-> f, s |-> s])
                        /\ last' = Returns(call, d.ev)
                        /\ call' = Idle
                        /\ UNCHANGED <<queue, dropped>>
                   ELSE IF Apply(f, d.ev) = "raise"
                   THEN /\ last' = Raises(call, "AttributeError", "")
                        /\ dropped' = dropped \cup {m.id}
                        /\ call' = Idle
                        /\ UNCHANGED <<queue, returned>>
                   ELSE /\ queue' = Buffer(queue, d.ev)
                        /\ call' = [call EXCEPT !.skipped = Append(@, d.ev)]
                        /\ UNCHANGED <<returned, dropped, last>>
        ELSE /\ closed[s]
             /\ last' = Raises(call, "ConnectionClosed", "")
             /\ call' = Idle
             /\ UNCHANGED <<queue, chan, returned, dropped>>
  /\ UNCHANGED <<oldRequests, open, handshake, closed, arrivals, handled>>
  /\ UNCHANGED cred
  /\ UNCHANGED remoteVars

\* ---------------------------------------------------------- await_requests
\* await_requests, lines 174-179: enter the loop of __process_requests.
AwaitRequests(s) ==
  /\ call.op = "idle"
  /\ s \in open
  /\ call' = [Idle EXCEPT !.op = "await_requests", !.s = s, !.q0 = queue,
                          !.n0 = Len(handled), !.c0 = Consumed(s)]
  /\ last' = NoResult
  /\ UNCHANGED <<queue, oldRequests, open, handshake, chan, closed, arrivals, returned, handled, dropped>>
  /\ UNCHANGED cred
  /\ UNCHANGED remoteVars

\* __process_requests, lines 169-172, one iteration: read and decode a frame, call
\* the on_request callback with it (the callback returns or raises).
ProcessRequests ==
  /\ call.op = "await_requests"
  /\ LET s == call.s
     IN IF chan[s] # << >>
        THEN LET m == Head(chan[s]).data
                 d == Decode(m)
             IN /\ chan' = [chan EXCEPT ![s] = Tail(chan[s])]
                /\ IF ~d.ok
                   THEN /\ last' = Raises(call, "ValueError", d.value)
                        /\ dropped' = dropped \cup {m.id}
                        /\ call' = Idle
                        /\ UNCHANGED handled
                   ELSE /\ handled' = Deliver(handled, d.ev, s)
                        /\ UNCHANGED dropped
                        /\ \E callbackReturns \in BOOLEAN :
                             IF callbackReturns
                             THEN UNCHANGED <<call, last>>
                             ELSE /\ last' = Raises(call, "CallbackError", "")
                                  /\ call' = Idle
        ELSE /\ closed[s]
             /\ last' = Raises(call, "ConnectionClosed", "")
             /\ call' = Idle
             /\ UNCHANGED <<chan, handled, dropped>>
  /\ UNCHANGED <<queue, oldRequests, open, handshake, closed, arrivals, returned>>
  /\ UNCHANGED cred
  /\ UNCHANGED remoteVars

\* ------------------------------------------------------------ delete calls
\* delete_request (lines 191-192) and delete_all_requests (lines 201-202): one
\* POST; the result is whether the remote answered 200.
DeleteRequest(s) ==
  /\ call.op = "idle"
  /\ s \in open
  /\ \E status \in {200, 500} :
       net' = [op |-> "delete_request", calls |-> << "delete_request" >>,
               result |-> IF status = 200 THEN "True" ELSE "False",
               arg |-> [tag |-> "none", s |-> "", n |-> 0], s |-> s, token |-> cred[s].token]
  /\ UNCHANGED <<queue, oldRequests, open, call, handshake, chan, closed, dnsRecords>>
  /\ UNCHANGED cred
  /\ UNCHANGED histVars
  /\ UNCHANGED fileVars

DeleteAllRequests(s) ==
  /\ call.op = "idle"
  /\ s \in open
  /\ \E status \in {200, 500} :
       net' = [op |-> "delete_all_requests", calls |-> << "delete_all_requests" >>,
               result |-> IF status = 200 THEN "True" ELSE "False",
               arg |-> [tag |-> "none", s |-> "", n |-> 0], s |-> s, token |-> cred[s].token]
  /\ UNCHANGED <<queue, oldRequests, open, call, handshake, chan, closed, dnsRecords>>
  /\ UNCHANGED cred
  /\ UNCHANGED histVars
  /\ UNCHANGED fileVars

\* ------------------------------------------------------------ DNS records
\* A DNS type is a str or an int (DnsRecord.type: Union[str, int]); the two are
\* kept apart by a tag, as Python's == keeps "A" and 0 apart.
StrT(x) == [tag |-> "str", s |-> x, n |-> 0]
IntT(i) == [tag |-> "int", s |-> "", n |-> i]
NoneT == [tag |-> "none", s |-> "", n |-> 0]
Domains == {"a", "b"}
Values == {"v1", "v2"}
DnsTypeArgs == {StrT("A"), StrT("TXT"), StrT("MX"), IntT(-1), IntT(0), IntT(3), IntT(4), IntT(5)}

\* add_dns, line 257
dns_types == << "A", "AAAA", "CNAME", "TXT" >>

\* dns_types.index(x), 0-based; -1 stands for the ValueError list.index raises
IndexOf(x) ==
  IF \E k \in 1..Len(dns_types) : dns_types[k] = x
  THEN (CHOOSE k \in 1..Len(dns_types) : dns_types[k] = x) - 1
  ELSE -1

\* add_dns, lines 267-272: the type of the record to append, or the error
InvalidDnsType(t) ==
  IF t.tag = "str" THEN IndexOf(t.s) = -1
  ELSE t.n < 0 \/ t.n > Len(dns_types)
AppendedDnsType(t) == IF t.tag = "str" THEN IntT(IndexOf(t.s)) ELSE t

\* add_dns, lines 262-265: index of the first record with this domain whose type
\* equals the argument as given; 0 if none
ExistingRecord(records, d, t) ==
  IF \E k \in 1..Len(records) : records[k].domain = d /\ records[k].type = t
  THEN CHOOSE k \in 1..Len(records) :
         /\ records[k].domain = d /\ records[k].type = t
         /\ \A j \in 1..(k - 1) : ~(records[j].domain = d /\ records[j].type = t)
  ELSE 0

\* dns, lines 243-244: one GET; the records as the remote holds them
Dns(s) ==
  /\ call.op = "idle"
  /\ s \in open
  /\ net' = [op |-> "dns", calls |-> << "get_dns" >>, result |-> "records", arg |-> NoneT, s |-> s, token |-> cred[s].token]
  /\ UNCHANGED <<queue, oldRequests, open, call, handshake, chan, closed, dnsRecords>>
  /\ UNCHANGED cred
  /\ UNCHANGED histVars
  /\ UNCHANGED fileVars

\* add_dns, lines 253-276, with dns (243-244) and update_dns (250-251).  The remote
\* answers the POST with 200 and stores the records as sent, or fails and keeps
\* what it had.
AddDns(s, d, t, v) ==
  /\ call.op = "idle"
  /\ s \in open
  /\ LET records == dnsRecords
         k == ExistingRecord(records, d, t)
     IN IF k > 0
        THEN \E status \in {200, 500} :
               /\ dnsRecords' = IF status = 200 THEN [records EXCEPT ![k].value = v] ELSE dnsRecords
               /\ net' = [op |-> "add_dns", calls |-> << "get_dns", "update_dns" >>,
                          result |-> IF status = 200 THEN "True" ELSE "False", arg |-> t, s |-> s, token |-> cred[s].token]
        ELSE IF InvalidDnsType(t)
        THEN /\ net' = [op |-> "add_dns", calls |-> << "get_dns" >>, result |-> "ValueError", arg |-> t, s |-> s, token |-> cred[s].token]
             /\ UNCHANGED dnsRecords
        ELSE /\ Len(records) < MaxRecords
             /\ \E status \in {200, 500} :
                  /\ dnsRecords' = IF status = 200
                                   THEN Append(records, [type |-> AppendedDnsType(t), domain |-> d, value |-> v])
                                   ELSE dnsRecords
                  /\ net' = [op |-> "add_dns", calls |-> << "get_dns", "update_dns" >>,
                             result |-> IF status = 200 THEN "True" ELSE "False", arg |-> t, s |-> s, token |-> cred[s].token]
  /\ UNCHANGED <<queue, oldRequests, open, call, handshake, chan, closed>>
  /\ UNCHANGED cred
  /\ UNCHANGED histVars
  /\ UNCHANGED fileVars

\* remove_dns, lines 287-292: the same validation as add_dns; None passes
InvalidRemoveType(t) == t.tag # "none" /\ InvalidDnsType(t)

\* DnsRecord (models, lines 49-52) is a pydantic BaseModel: it has attributes and
\* no __getitem__, so record["domain"] raises TypeError.
DnsRecordSubscriptable == FALSE

\* remove_dns, lines 288 and 296: the type the comprehension compares with, the
\* index of a symbolic name, the integer or None as given
RemoveDnsType(t) == IF t.tag = "str" THEN IntT(IndexOf(t.s)) ELSE t

\* remove_dns, line 296: [record for record in records if record["domain"] != d
\* and (dnstype == None or record["type"] != dnstype)]. The subscript is evaluated
\* for the first record, so only an empty list passes without the TypeError.
RemoveDnsFilter(records, d, t) ==
  IF records # << >> /\ ~DnsRecordSubscriptable
  THEN [exc |-> "TypeError", records |-> records]
  ELSE [exc |-> "",
        records |-> SelectSeq(records,
                      LAMBDA r : r.domain # d /\ (t.tag = "none" \/ r.type # RemoveDnsType(t)))]

\* remove_dns, lines 279-301, with dns (243-244) and update_dns (250-251).
RemoveDns(s, d, t) ==
  /\ call.op = "idle"
  /\ s \in open
  /\ LET records == dnsRecords
         kept == RemoveDnsFilter(records, d, t)
     IN IF InvalidRemoveType(t)
        THEN /\ net' = [op |-> "remove_dns", calls |-> << "get_dns" >>, result |-> "ValueError", arg |-> t, s |-> s, token |-> cred[s].token]
             /\ UNCHANGED dnsRecords
        ELSE IF kept.exc # ""
        THEN /\ net' = [op |-> "remove_dns", calls |-> << "get_dns" >>, result |-> kept.exc, arg |-> t, s |-> s, token |-> cred[s].token]
             /\ UNCHANGED dnsRecords
        ELSE IF Len(kept.records) = Len(records)
        THEN /\ net' = [op |-> "remove_dns", calls |-> << "get_dns" >>, result |-> "False", arg |-> t, s |-> s, token |-> cred[s].token]
             /\ UNCHANGED dnsRecords
        ELSE \E status \in {200, 500} :
               /\ dnsRecords' = IF status = 200 THEN kept.records ELSE dnsRecords
               /\ net' = [op |-> "remove_dns", calls |-> << "get_dns", "update_dns" >>,
                          result |-> IF status = 200 THEN "True" ELSE "False", arg |-> t, s |-> s, token |-> cred[s].token]
  /\ UNCHANGED <<queue, oldRequests, open, call, handshake, chan, closed>>
  /\ UNCHANGED cred
  /\ UNCHANGED histVars
  /\ UNCHANGED fileVars

\* ---------------------------------------------------------- response calls
\* response, lines 204-214
Response(s) ==
  /\ call.op = "idle"
  /\ s \in open
  /\ http' = [NoHttp EXCEPT !.op = "response", !.s = s, !.calls = << "get_file" >>,
                            !.stored0 = fileCfg, !.value = HttpResponseOf(fileCfg),
                            !.result = "HttpResponse"]
  /\ UNCHANGED <<queue, oldRequests, open, call, handshake, chan, closed, dnsRecords, net, fileCfg>>
  /\ UNCHANGED cred
  /\ UNCHANGED histVars

\* update_http, lines 216-237, with response (208-214) when no response is passed
UpdateHttp(s, response, raw, headers, status_code) ==
  /\ call.op = "idle"
  /\ s \in open
  /\ LET data == IF response.tag # "none" THEN response.v ELSE HttpResponseOf(fileCfg)
         h == IF Truthy(headers) THEN headers ELSE DictT(data.headers)
         r == IF Truthy(raw) THEN raw.v ELSE data.raw
         c == IF Truthy(status_code) THEN status_code.v ELSE data.status_code
         sent == [raw |-> b64encode(r),
                  headers |-> IF h.tag = "dict" THEN DictToHeaders(h.v) ELSE h.v,
                  status_code |-> c]
     IN \E status \in {200, 500} :
          /\ fileCfg' = IF status = 200 THEN sent ELSE fileCfg
          /\ http' = [NoHttp EXCEPT !.op = "update_http", !.s = s,
                        !.calls = IF response.tag # "none" THEN << "update_file" >>
                                  ELSE << "get_file", "update_file" >>,
                        !.response = response, !.raw = raw, !.headers = headers,
                        !.status_code = status_code, !.stored0 = fileCfg, !.sent = sent,
                        !.result = IF status = 200 THEN "True" ELSE "False"]
  /\ UNCHANGED <<queue, oldRequests, open, call, handshake, chan, closed, dnsRecords, net>>
  /\ UNCHANGED cred
  /\ UNCHANGED histVars

\* Another client of the same remote session stores a response configuration;
\* what the last call of this client saw or sent is then no longer the remote's
\* state, and http is reset.
WebUpdateFile ==
  /\ \E f \in StoredFiles : fileCfg' = f
  /\ http' = NoHttp
  /\ UNCHANGED <<queue, oldRequests, open, call, handshake, chan, closed, dnsRecords, net>>
  /\ UNCHANGED cred
  /\ UNCHANGED histVars

\* ---------------------------------------------------------- specifications
\* Session construction and the remote's side of the handshake.
NextOpen(SS) ==
  \/ \E s \in SS : Construct(s, NoToken, NoToken)
  \/ \E s \in SS : ServerSnapshot(s)
  \/ ConstructRecv
  \/ \E s \in SS : ServerClose(s)

\* The streaming calls of the sessions SS.
NextCalls(SS) ==
  \/ \E s \in SS, f \in Filters : GetRequest(s, f)
  \/ GetRequestRecv
  \/ \E s \in SS : AwaitRequests(s)
  \/ ProcessRequests

NextDelete(SS) ==
  \/ \E s \in SS : DeleteRequest(s)
  \/ \E s \in SS : DeleteAllRequests(s)

NextDns(SS) ==
  \/ \E s \in SS : Dns(s)
  \/ \E s \in SS, d \in Domains, t \in DnsTypeArgs, v \in Values : AddDns(s, d, t, v)
  \/ \E s \in SS, d \in Domains, t \in DnsTypeArgs \cup {NoneT} : RemoveDns(s, d, t)

\* One session and its event stream.
Next == NextOpen({"S1"}) \/ NextCalls({"S1"}) \/ ServerPush("S1")
Spec == Init /\ [][Next]_vars

\* One session, its event stream and the delete calls.
NextSession == Next \/ NextDelete({"S1"})
SpecSession == Init /\ [][NextSession]_vars

\* Two sessions of one process, the remote pushing MaxSharedEvents events.
ServerPushShared(s) == Len(arrivals) < MaxSharedEvents /\ ServerPush(s)
NextShared == NextOpen(Sessions) \/ NextCalls(Sessions) \/ \E s \in Sessions : ServerPushShared(s)
SpecShared == Init /\ [][NextShared]_vars

\* One session and its event stream, the filters including one that leaves
\* events of both classes in the queue.
NextScan ==
  \/ NextOpen({"S1"})
  \/ \E f \in ScanFilters : GetRequest("S1", f)
  \/ GetRequestRecv
  \/ ServerPush("S1")
SpecScan == Init /\ [][NextScan]_vars

\* SpecScan with the event loop's scheduling: run_until_complete (lines 139, 142)
\* resumes the pending recv() whenever a frame is there or the channel is closed.
SpecLive == Init /\ [][NextScan]_vars /\ WF_vars(GetRequestRecv)

\* One session and its DNS calls.
NextDnsCalls == NextOpen({"S1"}) \/ NextDns({"S1"})
SpecDns == Init /\ [][NextDnsCalls]_vars

\* Two sessions constructed with every token argument and environment, and their
\* management calls.
NextInit ==
  \/ \E s \in Sessions, token \in TokenArgs, env \in EnvTokens : Construct(s, token, env)
  \/ \E s \in Sessions : ServerSnapshot(s)
  \/ ConstructRecv
  \/ \E s \in Sessions : ServerClose(s)
  \/ NextDelete(Sessions)
  \/ \E s \in Sessions : Dns(s)
SpecInit == Init /\ [][NextInit]_vars

\* One session, its response()/update_http calls and another writer of the
\* response configuration.
NextHttp ==
  \/ \E s \in {"S1"} : Construct(s, NoToken, NoToken)
  \/ \E s \in {"S1"} : ServerSnapshot(s)
  \/ ConstructRecv
  \/ \E s \in {"S1"} : Response(s)
  \/ \E s \in {"S1"}, response \in ResponseArgs, raw \in RawArgs, headers \in HeaderArgs,
        status_code \in StatusArgs : UpdateHttp(s, response, raw, headers, status_code)
  \/ WebUpdateFile
SpecHttp == Init /\ [][NextHttp]_vars

\* ================================================================ claims
QueueIds == [k \in 1..Len(queue) |-> queue[k].id]
ReturnedIds == [k \in 1..Len(returned) |-> returned[k].e.id]
HandledIds == [k \in 1..Len(handled) |-> handled[k].e.id]
Times(ids, i) == Cardinality({k \in 1..Len(ids) : ids[k] = i})
IdSet(ids) == {ids[k] : k \in 1..Len(ids)}
Increasing(ids) == \A k \in 1..(Len(ids) - 1) : ids[k] < ids[k + 1]
Decodable(i) == arrivals[i].type \in {"http", "dns"}
MaxOf(S) == CHOOSE x \in S : \A y \in S : y <= x

\* C1: once get_request(P) calls have left events in the queue, a get_request()
\* with no predicate that returns an event returns the oldest queued event, not a
\* newer channel event.
C1_UnfilteredPullReplaysBuffer ==
  [][(call.op = "get_request" /\ call.f = NoFilter /\ queue # << >> /\ last'.kind = "event")
       => last'.ev = Head(queue)]_vars

\* C2: every live event read from a channel and not lost to an exception (raising
\* predicate, undecodable frame) nor passed to the callback is exactly once in
\* `returned` or exactly once in the queue, never both; no other event is in
\* either.
C2_NoLossNoDuplication ==
  \A i \in 1..Len(arrivals) :
    LET n == Times(ReturnedIds, i) + Times(QueueIds, i)
    IN IF i \in Consumed(arrivals[i].s) /\ i \notin dropped /\ i \notin IdSet(HandledIds)
       THEN n = 1
       ELSE n = 0

\* C2 witness: no exception so far, an event was replayed from the queue after a
\* newer one was returned, and the queue still holds an event.
C2_Witness ==
  /\ dropped = {} /\ handled = << >> /\ queue # << >>
  /\ \E k1, k2 \in 1..Len(returned) : k1 < k2 /\ returned[k2].e.id < returned[k1].e.id

\* C3: the events one session returns for one filter come out in the arrival
\* order of their channel, whatever calls are interleaved.
C3_PerFilterOrder ==
  \A k1, k2 \in 1..Len(returned) :
    ( /\ k1 < k2
      /\ returned[k1].f = returned[k2].f
      /\ returned[k1].s = returned[k2].s
      /\ arrivals[returned[k1].e.id].s = arrivals[returned[k2].e.id].s )
    => returned[k1].e.id < returned[k2].e.id

\* C3 witness: two HTTP_FILTER returns with a DNS_FILTER return between them, the
\* second HTTP_FILTER return served from the queue (it arrived before the event the
\* DNS_FILTER call returned).
C3_Witness ==
  \E k \in 1..(Len(returned) - 2) :
    /\ returned[k].f = "HTTP_FILTER" /\ returned[k + 1].f = "DNS_FILTER"
    /\ returned[k + 2].f = "HTTP_FILTER"
    /\ returned[k + 2].e.id < returned[k + 1].e.id

\* C4: a session's buffer holds only events of that session's channel (so a new
\* session's buffer is empty), and a session returns only events of its own channel.
C4_BufferOwnership ==
  /\ \A s \in open : \A k \in 1..Len(BufferOf(s)) : arrivals[BufferOf(s)[k].id].s = s
  /\ \A k \in 1..Len(returned) : arrivals[returned[k].e.id].s = returned[k].s

\* C5: after a get_request whose predicate raised, the queue holds every decoded
\* event read from the channel that was not returned (nor passed to the callback),
\* the event under evaluation included, in arrival order.
C5_PredicateFailureKeepsEvents ==
  (call.op = "idle" /\ last.op = "get_request" /\ last.exc = "AttributeError")
  => /\ \A i \in Consumed(last.s) :
          (Decodable(i) /\ i \notin IdSet(ReturnedIds) /\ i \notin IdSet(HandledIds))
          => i \in IdSet(QueueIds)
     /\ Increasing(QueueIds)

\* C6: when the channel fails (recv() raises, or the frame read cannot be decoded)
\* under a get_request(P) that has appended k events, the call ends with that error,
\* the queue is the queue the call found followed by the k events in arrival order
\* (none of them satisfying P), and the snapshot is unchanged.
C6_ChannelFailureKeepsBuffer ==
  [][\A s \in Sessions :
       (call.op = "get_request" /\ call.s = s /\ last'.exc \in {"ConnectionClosed", "ValueError"})
       => /\ call'.op = "idle"
          /\ last'.kind = "error" /\ last'.op = "get_request"
          /\ last'.k = Len(call.skipped)
          /\ queue' = call.q0 \o call.skipped
          /\ Increasing([k \in 1..Len(call.skipped) |-> call.skipped[k].id])
          /\ \A k \in 1..Len(call.skipped) : Apply(call.f, call.skipped[k]) = "F"
          /\ get_old_requests(s)' = get_old_requests(s)]_vars

\* C6 witness: a get_request ended by the channel failure after appending events to
\* a queue that earlier calls had already filled.
C6_Witness ==
  /\ last.op = "get_request" /\ last.exc = "ConnectionClosed"
  /\ last.k >= 1 /\ Len(queue) > last.k
  /\ \E s \in open : last.s = s /\ get_old_requests(s) # << >>

\* C7: get_old_requests returns the data of the first server message of the
\* session, in every state after construction.
C7_SnapshotImmutable ==
  \A s \in open : Len(handshake[s]) = 2 /\ get_old_requests(s) = handshake[s][2].data

\* C7 witness: a non-empty snapshot, after events were returned, queued and passed
\* to the callback and after a delete_all_requests call.
C7_Witness ==
  \E s \in open :
    /\ get_old_requests(s) # << >>
    /\ returned # << >> /\ queue # << >> /\ handled # << >>
    /\ net.op = "delete_all_requests" /\ net.result = "True"

\* C8: while await_requests runs, the callback has been called exactly once, in
\* arrival order, for every event read from the channel since the call began; each
\* step reads at most one frame; the queue is left alone; the call ends only with
\* an error of the channel, the decoder or the callback.
C8_PushDrain ==
  [][\A s \in Sessions :
       (call.op = "await_requests" /\ call.s = s)
       => LET new == (Consumed(s)' \ call.c0) \ dropped'
              n == Cardinality(new)
          IN /\ Len(handled') = call.n0 + n
             /\ \A k \in 1..n : /\ handled'[call.n0 + k].s = s
                                /\ handled'[call.n0 + k].e.id \in new
                                /\ k > 1 => handled'[call.n0 + k - 1].e.id < handled'[call.n0 + k].e.id
             /\ Cardinality(Consumed(s)' \ Consumed(s)) <= 1
             /\ queue' = queue /\ queue = call.q0
             /\ call'.op = "idle"
                  => /\ last'.kind = "error"
                     /\ last'.exc \in {"ConnectionClosed", "ValueError", "CallbackError"}]_vars

\* C8 witness: await_requests still running after two callback invocations.
C8_Witness == call.op = "await_requests" /\ Len(handled) >= call.n0 + 2

\* C9: every event returned, queued or passed to the callback is an HttpRequest
\* decoded from a frame of type "http" or a DnsRequest decoded from a frame of type
\* "dns"; every frame read with another type ended its call with a ValueError that
\* names the type, and yielded no event.
KnownKind(e) ==
  \/ e.cls = "HttpRequest" /\ arrivals[e.id].type = "http"
  \/ e.cls = "DnsRequest" /\ arrivals[e.id].type = "dns"
C9_ClosedDecoding ==
  /\ \A k \in 1..Len(queue) : KnownKind(queue[k])
  /\ \A k \in 1..Len(returned) : KnownKind(returned[k].e)
  /\ \A k \in 1..Len(handled) : KnownKind(handled[k].e)
  /\ \A s \in Sessions : \A i \in Consumed(s) : ~Decodable(i) => i \in dropped
  /\ last.exc = "ValueError"
       => /\ last.kind = "error" /\ last.ev = NoEvent
          /\ Consumed(last.s) # {}
          /\ last.value = arrivals[MaxOf(Consumed(last.s))].type
          /\ last.value \notin {"http", "dns"}

\* C9 witness: a call ended by the ValueError for type "smtp" after another call
\* returned an event.
C9_Witness == last.exc = "ValueError" /\ last.value = "smtp" /\ returned # << >>

\* C10: the remote's record list holds at most one record per (domain, DNS type),
\* the symbolic name and its index being the same type.
NormalDnsType(t) == IF t.tag = "str" THEN IndexOf(t.s) ELSE t.n
C10_AddDnsUpsert ==
  \A i, j \in 1..Len(dnsRecords) :
    (i < j /\ dnsRecords[i].domain = dnsRecords[j].domain)
    => NormalDnsType(dnsRecords[i].type) # NormalDnsType(dnsRecords[j].type)

\* C11: an add_dns or remove_dns call that ends with the validation error has
\* made no HTTP request.
C11_ValidationBeforeIO ==
  (net.op \in {"add_dns", "remove_dns"} /\ net.result = "ValueError") => net.calls = << >>

\* C12: add_dns and remove_dns answer every integer DNS type outside 0..3 with the
\* validation error, and the remote is never sent (so never holds) a record whose
\* type is outside A, AAAA, CNAME, TXT.
C12_DnsTypeRange ==
  /\ (net.op \in {"add_dns", "remove_dns"} /\ net.arg.tag = "int" /\ net.arg.n \notin 0..(Len(dns_types) - 1))
       => net.result = "ValueError"
  /\ \A k \in 1..Len(dnsRecords) : NormalDnsType(dnsRecords[k].type) \in 0..(Len(dns_types) - 1)

\* C16: a remove_dns(d, t) call with a valid type leaves in the remote list every
\* record of another domain, and every record of d with another type when t is
\* given; when no record has domain d (and type t) it returns False after the one
\* get_dns request, with no update_dns.
C16_RemoveDnsSelective ==
  [][\A s \in Sessions, d \in Domains, t \in DnsTypeArgs \cup {NoneT} :
       (RemoveDns(s, d, t) /\ ~InvalidRemoveType(t))
       => LET Hit(r) == r.domain = d /\ (t.tag = "none" \/ NormalDnsType(r.type) = NormalDnsType(t))
              Has(recs, r) == \E k \in 1..Len(recs) : recs[k] = r
          IN /\ \A k \in 1..Len(dnsRecords) :
                  ~Hit(dnsRecords[k]) => Has(dnsRecords', dnsRecords[k])
             /\ (\A k \in 1..Len(dnsRecords) : ~Hit(dnsRecords[k]))
                  => (net'.result = "False" /\ net'.calls = << "get_dns" >>)]_vars

\* C13: a session constructed with an explicit token keeps it, sends it as the
\* handshake message and in every later request, and neither reads the environment
\* nor calls the issuance endpoint; with no explicit token the environment token is
\* kept if there is one, and the issuance endpoint is called exactly when both are
\* absent.
C13_CredentialPrecedence ==
  /\ \A s \in Sessions :
       handshake[s] # << >> =>
         /\ ~Falsy(cred[s].arg)
              => (cred[s].token = cred[s].arg /\ ~cred[s].envRead /\ ~cred[s].issued)
         /\ (Falsy(cred[s].arg) /\ ~Falsy(cred[s].env))
              => (cred[s].token = cred[s].env /\ ~cred[s].issued)
         /\ cred[s].issued <=> (Falsy(cred[s].arg) /\ Falsy(cred[s].env))
         /\ cred[s].issued => cred[s].token \in IssuedTokens
         /\ handshake[s][1].token = cred[s].token
  /\ \A s \in Sessions : (net.op # "" /\ net.s = s) => net.token = cred[s].token
C13_Witness ==
  /\ cred["S1"].arg = "tokA" /\ cred["S1"].env = "tokE"
  /\ cred["S2"].arg = NoToken /\ cred["S2"].env = "tokE"
  /\ net.op = "dns" /\ net.s = "S2"

\* C14: an update_http call with no `response` object sends a configuration that
\* has the provided value in every field provided (empty bytes, an empty mapping
\* and status 0 included) and the stored value in every field not provided.
C14_PartialUpdate ==
  (http.op = "update_http" /\ http.response.tag = "none")
  => /\ http.sent.raw = IF http.raw.tag = "none" THEN http.stored0.raw ELSE b64encode(http.raw.v)
     /\ http.sent.headers = IF http.headers.tag = "none" THEN http.stored0.headers
                            ELSE IF http.headers.tag = "dict" THEN DictToHeaders(http.headers.v)
                            ELSE http.headers.v
     /\ http.sent.status_code = IF http.status_code.tag = "none" THEN http.stored0.status_code
                                ELSE http.status_code.v

\* C15: a response() call that follows a successful update_http(raw = X), the
\* remote still holding what was sent, returns raw = X; one that follows a
\* successful update_http(headers = H) with a mapping H returns headers = H.
C15_ResponseRoundTrip ==
  [][\A s \in Sessions :
       (/\ http.op = "update_http" /\ http.s = s /\ http.result = "True" /\ fileCfg = http.sent
        /\ http'.op = "response" /\ http'.s = s)
       => /\ http.raw.tag = "bytes" => http'.value.raw = http.raw.v
          /\ http.headers.tag = "dict" => http'.value.headers = http.headers.v]_vars

\* the positions of q whose event satisfies f, and whether the scan of q with f
\* reaches one of them (f returns False on every event before it)
Satisfying(f, q) == {i \in 1..Len(q) : Apply(f, q[i]) = "T"}
BufferHit(f, q) ==
  /\ f # NoFilter
  /\ \E i \in Satisfying(f, q) : \A j \in 1..(i - 1) : Apply(f, q[j]) = "F"

\* C17: a get_request(P) call with a buffered event satisfying P returns the first
\* such event, and the buffer afterwards is the buffer before without that one
\* element, the others in their order.
C17_BufferHit ==
  [][\A s \in Sessions, f \in ScanFilters :
       (GetRequest(s, f) /\ BufferHit(f, queue))
       => \E i \in Satisfying(f, queue) :
            /\ \A j \in Satisfying(f, queue) : i <= j
            /\ last'.kind = "event" /\ last'.ev = queue[i]
            /\ returned' = Append(returned, [e |-> queue[i], f |-> f, s |-> s])
            /\ Len(queue') = Len(queue) - 1
            /\ \A k \in 1..(i - 1) : queue'[k] = queue[k]
            /\ \A k \in i..Len(queue') : queue'[k] = queue[k + 1]]_vars
\* the second of two buffered events was returned, the first is still buffered
C17_Witness ==
  /\ last.kind = "event" /\ last.f = "DNS_FILTER" /\ last.k = 0
  /\ queue # << >> /\ queue[1].id < last.ev.id
  /\ \E k \in 1..Len(returned) : returned[k].e.id > last.ev.id

\* C18: a get_request(P) call satisfied from the buffer returns in the same step,
\* reads no frame from the channel and leaves the pending frames as they were,
\* whatever the state of the channel.
C18_BufferHitNoIO ==
  [][\A s \in Sessions, f \in ScanFilters :
       (GetRequest(s, f) /\ BufferHit(f, queue))
       => /\ call'.op = "idle" /\ last'.kind = "event"
          /\ chan' = chan /\ closed' = closed /\ arrivals' = arrivals
          /\ Consumed(s)' = Consumed(s)]_vars
\* an event older than one returned before was returned while the channel was
\* closed and empty
C18_Witness ==
  /\ last.kind = "event" /\ last.f # NoFilter /\ last.k = 0
  /\ closed[last.s] /\ chan[last.s] = << >>
  /\ Len(returned) >= 2
  /\ returned[Len(returned)].e = last.ev
  /\ returned[Len(returned) - 1].e.id > last.ev.id

\* C19: the buffer of every open session holds events of that session's channel
\* only, in the order of their arrival.
C19_BufferOrder ==
  \A s \in open :
    /\ \A k \in 1..Len(BufferOf(s)) : BufferOf(s)[k].id \in ChannelIds(s)
    /\ \A j, k \in 1..Len(BufferOf(s)) : j < k => BufferOf(s)[j].id < BufferOf(s)[k].id

\* C20: a get_request() call with no predicate does not take its result from the
\* buffer; it reads one frame, returns the event decoded from it, and the buffer
\* is the same before and after.
C20_UnfilteredPull ==
  [][\A s \in Sessions :
       /\ GetRequest(s, NoFilter) => (call'.op = "get_request" /\ queue' = queue /\ returned' = returned)
       /\ (GetRequestRecv /\ call.s = s /\ call.f = NoFilter /\ chan[s] # << >>)
          => /\ queue' = queue /\ queue = call.q0
             /\ chan'[s] = Tail(chan[s])
             /\ Consumed(s)' = call.c0 \cup {Head(chan[s]).data.id}
             /\ Decode(Head(chan[s]).data).ok
                  => (last'.kind = "event" /\ last'.ev = Decode(Head(chan[s]).data).ev
                      /\ call'.op = "idle")]_vars
C20_Witness ==
  /\ last.kind = "event" /\ last.f = NoFilter /\ queue # << >>
  /\ \A k \in 1..Len(queue) : queue[k].id < last.ev.id

\* C23: the constructor prints the "Running on" diagnostic (lines 62-63, `info`)
\* exactly when no explicit token was passed: for a token of the environment and
\* for an issued token, and never for an explicit token.
C23_ImplicitTokenDiagnostic ==
  \A s \in Sessions :
    handshake[s] # << >> => (cred[s].info <=> Falsy(cred[s].arg))

\* C21: the constructor's recv() happens after the token went out as the first
\* client message, takes exactly the first server frame and stores its data as the
\* snapshot, reading no live event; no snapshot frame is left on the channel of an
\* open session; and the first frame a get_request or await_requests call reads
\* after construction is the first live event of the channel.
C21_HandshakeOrder ==
  [][\A s \in Sessions :
       /\ (call.op = "init" /\ call.s = s /\ s \in open')
          => /\ handshake[s][1].from = "client" /\ handshake[s][1].token = cred[s].token
             /\ Len(handshake[s]) = 2 /\ handshake[s][2].from = "server"
             /\ Head(chan[s]).snapshot
             /\ oldRequests'[s] = handshake[s][2].data
             /\ chan'[s] = Tail(chan[s])
             /\ Consumed(s)' = {}
       /\ s \in open' => \A k \in 1..Len(chan'[s]) : ~chan'[s][k].snapshot
       /\ (call.op \in {"get_request", "await_requests"} /\ call.s = s
           /\ Consumed(s) = {} /\ Consumed(s)' # {})
          => Consumed(s)' = {CHOOSE i \in ChannelIds(s) : \A j \in ChannelIds(s) : i <= j}]_vars
\* the first live event was returned by a session that stored a non-empty snapshot
\* and has a second live event pending
C21_Witness ==
  /\ last.kind = "event" /\ last.ev.id = 1 /\ Len(returned) = 1
  /\ oldRequests[last.s] # << >>
  /\ Pending(last.s) # {}

\* the k-th pending frame of s is the first one that satisfies f, and f returns
\* False on every decodable frame before it
FirstMatchAt(s, f, k) ==
  /\ k \in 1..Len(chan[s])
  /\ \A j \in 1..k : ~chan[s][j].snapshot /\ Decode(chan[s][j].data).ok
  /\ Apply(f, Decode(chan[s][k].data).ev) = "T"
  /\ \A j \in 1..(k - 1) : Apply(f, Decode(chan[s][j].data).ev) = "F"

\* C22: a get_request(P) call that went on to the channel ends only by returning
\* an event on which P is true, or with an error (closed channel, undecodable
\* frame, or the exception P itself raised on the frame read), never by returning
\* an event P rejects; and while the call waits with a frame satisfying P pending
\* behind frames P rejects, the call eventually returns the event of that frame.
C22_BlockingProgress ==
  /\ [][\A s \in Sessions, f \in ScanFilters :
          (call.op = "get_request" /\ call.s = s /\ call.f = f /\ call'.op = "idle")
          => \/ /\ last'.kind = "event"
                /\ f # NoFilter => Apply(f, last'.ev) = "T"
                /\ chan[s] # << >> /\ last'.ev = Decode(Head(chan[s]).data).ev
                /\ last'.ev.id \in Consumed(s)' \ call.c0
                /\ \A k \in 1..Len(call.skipped) : Apply(f, call.skipped[k]) = "F"
             \/ /\ last'.kind = "error"
                /\ last'.exc \in {"ConnectionClosed", "ValueError", "AttributeError"}
                /\ last'.exc = "AttributeError" => f = "USER_FILTER"]_vars
  /\ \A i \in 1..MaxEvents :
       (/\ call.op = "get_request" /\ call.f # NoFilter
        /\ \E s \in Sessions, k \in 1..MaxEvents :
             call.s = s /\ FirstMatchAt(s, call.f, k) /\ chan[s][k].data.id = i)
       ~> (\E n \in 1..Len(returned) : returned[n].e.id = i /\ returned[n].f # NoFilter)
\* a call returned a matching event after buffering two events it had to skip
C22_Witness ==
  /\ last.op = "get_request" /\ last.kind = "event" /\ last.f # NoFilter /\ last.k = 2
  /\ Apply(last.f, last.ev) = "T"

====
